---------------------------- MODULE Spec2Model ----------------------------
(***************************************************************************)
(* State-machine model of the scale_protocol program                       *)
(* (programs/protocol/src/lib.rs): the instruction handlers create,        *)
(* increase_margin and process_position, the Position account they act on, *)
(* and the pure helpers they call; and of TransactionAccount               *)
(* (programs/protocol/src/price.rs).  Spec is the program's instructions;  *)
(* PureSpec calls the methods of Position and of TransactionAccount as     *)
(* functions.                                                              *)
(*                                                                         *)
(* Integers.  TLC's integers are 32 bits wide, so the program's 64-bit     *)
(* words are modelled WordBits wide: u64 is 0 .. 2^WordBits - 1 and i64 is *)
(* -2^(WordBits-1) .. 2^(WordBits-1) - 1.  Casts, checked operations and   *)
(* unchecked operations keep their meaning at that width.                  *)
(*                                                                         *)
(* BigDecimal.  A BigDecimal value is modelled by the exact rational       *)
(* [num, den] it denotes; comparisons and truncations are computed on the  *)
(* rational.  The text form stored in Position.amount is that rational     *)
(* (to_string / from_str of a BigDecimal are exact inverses); the empty    *)
(* string of a zero-initialised account is den = 0.                        *)
(***************************************************************************)
EXTENDS Integers, Sequences, FiniteSets, TLC

\* ------------------------------------------------------------------ bounds
\* Width of the modelled machine word (stands for 64).
WordBits == 24
\* Number of clock ticks the model lets pass.
MaxTicks == 1
\* Seconds the clock advances in one tick.
TickSeconds == 43200
\* Largest number of successful increase_margin calls tracked per position.
MaxIncreases == 1

\* ------------------------------------------------------- program constants
MAX_LEVERAGE == 100
BASIS_POINTS == 10000
SECONDS_PER_DAY == 86400
SIGNATURE_SERIALIZED_SIZE == 64

\* ------------------------------------------------------------- word arithmetic
U64_MODULUS == 2 ^ WordBits
U64_MAX == U64_MODULUS - 1
I64_MAX == (U64_MODULUS \div 2) - 1
I64_MIN == -(U64_MODULUS \div 2)

\* A fallible result: err = "Ok" carries val, any other err is the failure.
Ok(v) == [err |-> "Ok", val |-> v]
Err(e) == [err |-> e, val |-> 0]

\* `x as u64` for an i64 x: reinterpretation of the two's complement bits.
as_u64(x) == x % U64_MODULUS
\* `x as i64` for a u64 x.
as_i64(x) == IF x > I64_MAX THEN x - U64_MODULUS ELSE x

\* u64::checked_add / checked_sub / checked_mul / checked_div: Err("None") is None.
u64_checked_add(a, b) == IF a + b > U64_MAX THEN Err("None") ELSE Ok(a + b)
u64_checked_sub(a, b) == IF a < b THEN Err("None") ELSE Ok(a - b)
u64_checked_mul(a, b) ==
    IF a = 0 \/ b = 0 THEN Ok(0)
    ELSE IF a > U64_MAX \div b THEN Err("None") ELSE Ok(a * b)
u64_checked_div(a, b) == IF b = 0 THEN Err("None") ELSE Ok(a \div b)
\* 10u64.checked_pow(e)
RECURSIVE u64_checked_pow10(_)
u64_checked_pow10(e) ==
    IF e = 0 THEN Ok(1)
    ELSE LET r == u64_checked_pow10(e - 1)
         IN IF r.err # "Ok" THEN r ELSE u64_checked_mul(r.val, 10)

\* i64::checked_add / checked_sub.
InI64(x) == x >= I64_MIN /\ x <= I64_MAX
i64_checked_add(a, b) == IF InI64(a + b) THEN Ok(a + b) ELSE Err("None")
i64_checked_sub(a, b) == IF InI64(a - b) THEN Ok(a - b) ELSE Err("None")
\* i64 division truncates toward zero.
i64_div_trunc(a, b) == IF a >= 0 THEN a \div b ELSE -((-a) \div b)

\* i32::abs
abs(x) == IF x < 0 THEN -x ELSE x

\* The build's treatment of an overflowing unchecked operator (+=, -):
\* with overflow checks the program panics, without them the value wraps.
\* Both builds are possible; the variable overflow_checks fixes one.
u64_wrap(x) == x % U64_MODULUS

VARIABLES
    accounts,         \* Position accounts in storage, by (payer, index) seeds
    clock,            \* Clock sysvar: [unix_timestamp, slot]
    overflow_checks,  \* whether the build panics on unchecked overflow
    history,          \* per account: margin written by create, amounts added since
    last              \* the last instruction (or call): inputs, result, working copy

vars == <<accounts, clock, overflow_checks, history, last>>

\* ------------------------------------------------------------------ data model
\* A BigDecimal as the rational num / den; den = 0 is text that does not parse.
BigDecimal(n, d) == [num |-> n, den |-> d]
EmptyAmount == BigDecimal(0, 0)

\* A Position account as `init` leaves it: every byte zero, so each enum is its
\* first variant, each number 0 and the amount string empty.
ZeroPosition ==
    [ pool |-> "none", owner |-> "none", index |-> 0,
      status |-> "Open", ptype |-> "Isolated", direction |-> "Long",
      decimals |-> 0, leverage |-> 0, last_price |-> 0, margin |-> 0,
      margin_rate_numerator |-> 0, overnight_fee_numerator |-> 0,
      liquidation |-> 0, created_at |-> 0, slot |-> 0, amount |-> EmptyAmount ]

\* An account of the program: uninitialised (or closed), or holding a Position.
NoAccount == [is_initialized |-> FALSE, position |-> ZeroPosition]
Account(p) == [is_initialized |-> TRUE, position |-> p]

\* ------------------------------------------------------- PositionArgs, Position
\* PositionArgs::margin: leverage_margin.checked_div(leverage).unwrap()
margin(args) ==
    LET d == u64_checked_div(args.leverage_margin, args.leverage)
    IN IF d.err # "Ok" THEN Err("Panic") ELSE d

\* Position::is_liquidated
is_liquidated(p, price) ==
    IF p.direction = "Long" THEN price <= p.liquidation ELSE price >= p.liquidation

\* Position::maintainance_margin: both steps checked, then unwrapped.
maintainance_margin(p) ==
    LET m == u64_checked_mul(p.margin, p.margin_rate_numerator)
    IN IF m.err # "Ok" THEN Err("Panic")
       ELSE Ok(u64_checked_div(m.val, BASIS_POINTS).val)

\* Position::amount: from_str(&self.amount).unwrap()
amount(p) == IF p.amount.den = 0 THEN Err("Panic") ELSE Ok(p.amount)

\* BigDecimal::to_u64 of the rational n / d (d > 0): None when negative or too
\* large, else the value with its fraction cut off.
to_u64(n, d) ==
    IF n < 0 THEN Err("None")
    ELSE IF n \div d > U64_MAX THEN Err("None") ELSE Ok(n \div d)

\* The integer part of x * y / 10000 (x, y >= 0), computed without forming
\* the product x * y: BigDecimal arithmetic is exact at any size.
mul_basis_points(x, y) ==
    x * (y \div BASIS_POINTS) + (x * (y % BASIS_POINTS)) \div BASIS_POINTS

\* Position::overnight_fee
overnight_fee(p, time) ==
    LET d1 == i64_checked_sub(time, p.created_at)
        d2 == i64_checked_add(d1.val, SECONDS_PER_DAY)
        days == as_u64(i64_div_trunc(d2.val, SECONDS_PER_DAY))
        a == amount(p)
        \* assets * days * numerator / 10000, cut to an integer: dividing by
        \* 10000 and then by den cuts to the same integer.
        fee == to_u64(mul_basis_points(
                          a.val.num * p.leverage * p.overnight_fee_numerator, days),
                      a.val.den)
    IN IF d1.err # "Ok" \/ d2.err # "Ok" THEN Err("Panic")
       ELSE IF a.err # "Ok" THEN Err("Panic")
       ELSE IF fee.err # "Ok" THEN Err("Panic")
       ELSE fee

\* Position::bond: margin - maintainance_margin(), an unchecked subtraction.
bond(p) ==
    LET mm == maintainance_margin(p)
    IN IF mm.err # "Ok" THEN Err("Panic")
       ELSE IF p.margin >= mm.val THEN Ok(p.margin - mm.val)
       ELSE IF overflow_checks THEN Err("Panic")
       ELSE Ok(u64_wrap(p.margin - mm.val))

\* Position::get_liquidated_margin
get_liquidated_margin(p, time) ==
    LET fee == overnight_fee(p, time)
        mm == maintainance_margin(p)
        r == u64_checked_sub(mm.val, fee.val)
    IN IF fee.err # "Ok" \/ mm.err # "Ok" \/ r.err # "Ok" THEN Err("Panic")
       ELSE r

\* The `a - b` of two i64 values, unchecked: panics or wraps on overflow.
i64_unchecked_sub(a, b) ==
    IF InI64(a - b) THEN Ok(a - b)
    ELSE IF overflow_checks THEN Err("Panic")
    ELSE Ok(as_i64(as_u64(a - b)))

\* (BigDecimal::from(price) * self.amount()).to_u64().ok_or(InvalidPrice)
earned(p, price) ==
    LET a == amount(p)
        r == to_u64(price * a.val.num, a.val.den)
    IN IF a.err # "Ok" THEN Err("Panic")
       ELSE IF r.err # "Ok" THEN Err("InvalidPrice")
       ELSE r

\* margin.checked_sub(difference as u64)?.checked_sub(self.overnight_fee(time))?
profit_loss(p, difference, time) ==
    LET s1 == u64_checked_sub(p.margin, as_u64(difference))
        fee == overnight_fee(p, time)
        s2 == u64_checked_sub(s1.val, fee.val)
    IN IF s1.err # "Ok" THEN Err("InvalidPrice")
       ELSE IF fee.err # "Ok" THEN Err("Panic")
       ELSE IF s2.err # "Ok" THEN Err("InvalidPrice")
       ELSE s2

\* let earned = ...?; margin.checked_sub(self.overnight_fee(time))?.checked_add(earned)?
profit_earned(p, price, time) ==
    LET e == earned(p, price)
        fee == overnight_fee(p, time)
        s1 == u64_checked_sub(p.margin, fee.val)
        s2 == u64_checked_add(s1.val, e.val)
    IN IF e.err # "Ok" THEN e
       ELSE IF fee.err # "Ok" THEN Err("Panic")
       ELSE IF s1.err # "Ok" \/ s2.err # "Ok" THEN Err("InvalidPrice")
       ELSE s2

\* Position::get_profit
get_profit(p, current_price, time) ==
    LET sold_price == i64_checked_sub(current_price.price, as_i64(current_price.conf))
        bought_price == i64_checked_add(current_price.price, as_i64(current_price.conf))
    IN IF sold_price.err # "Ok" THEN Err("InvalidPrice")
       ELSE IF p.direction = "Long" THEN
            IF sold_price.val < p.last_price THEN
                LET difference == i64_unchecked_sub(p.last_price, sold_price.val)
                IN IF difference.err # "Ok" THEN difference
                   ELSE profit_loss(p, difference.val, time)
            ELSE profit_earned(p, sold_price.val, time)
       ELSE IF bought_price.err # "Ok" THEN Err("InvalidPrice")
       ELSE IF bought_price.val > p.last_price THEN
                LET difference == i64_unchecked_sub(bought_price.val, p.last_price)
                IN IF difference.err # "Ok" THEN difference
                   ELSE profit_loss(p, difference.val, time)
       ELSE profit_earned(p, sold_price.val, time)

\* ------------------------------------------------------------- free functions
\* get_liquidation: (price as u64) checked_sub / checked_add bond, unwrapped.
get_liquidation(price, b, direction) ==
    LET r == IF direction = "Long" THEN u64_checked_sub(as_u64(price), b)
             ELSE u64_checked_add(as_u64(price), b)
    IN IF r.err # "Ok" THEN Err("Panic") ELSE r

\* get_asset_amount: BigDecimal::from(leverage_margin) / price; the division
\* panics on a zero divisor.
get_asset_amount(leverage_margin, price) ==
    IF price = 0 THEN Err("Panic") ELSE Ok(BigDecimal(leverage_margin, price))

\* Least integer not below n / d, and greatest integer not above it (d > 0).
ceil_div(n, d) == -((-n) \div d)
floor_div(n, d) == n \div d

\* check_slippage.  price_before is args.price / 10^|expo| in u64 (integer)
\* division; slippage is the exact decimal slippage_numerator / 10000.
\*   Long : price >= price_before * (1 + slippage)
\*   Short: price <= price_before * (1 - slippage)
\* For the integer price these are comparisons with the ceiling and with the
\* floor of the exact product.
check_slippage(price, args) ==
    LET pow == u64_checked_pow10(abs(args.expo))
        price_before == u64_checked_div(args.price, pow.val)
        up == price_before.val * (BASIS_POINTS + args.slippage_numerator)
        down == price_before.val * (BASIS_POINTS - args.slippage_numerator)
    IN IF pow.err # "Ok" \/ price_before.err # "Ok" THEN Err("InvalidPrice")
       ELSE IF args.direction = "Long" /\ price >= ceil_div(up, BASIS_POINTS)
            THEN Err("SlippageReached")
       ELSE IF args.direction = "Short" /\ price <= floor_div(down, BASIS_POINTS)
            THEN Err("SlippageReached")
       ELSE Ok(0)

\* ------------------------------------------------------------- attestation
\* Little-endian bytes of a word (two's complement for a negative i64).
WordBytes == (WordBits + 7) \div 8
RECURSIVE le_bytes(_, _)
le_bytes(x, n) == IF n = 0 THEN <<>> ELSE <<x % 256>> \o le_bytes(x \div 256, n - 1)

\* LiquidatedData::serialize (Borsh): the fields in order, a bool as one byte
\* and each integer little-endian.
serialize(message) ==
    <<IF message.is_liquidated THEN 1 ELSE 0>>
        \o le_bytes(message.price, WordBytes)
        \o le_bytes(as_u64(message.time), WordBytes)
        \o le_bytes(message.slot, WordBytes)

\* The Ed25519 program on (signature, pubkey, message): a signature is the
\* bytes a key produced over some message bytes, and it verifies exactly for
\* that key and those bytes.
ed25519_verify(signature, pubkey, bytes) ==
    signature.signer = pubkey /\ signature.signed = bytes

\* new_ed25519_program_instruction: asserts the signature is 64 bytes long
\* (a Pubkey is always 32) and lays out pubkey, signature and message.
new_ed25519_program_instruction(signature, pubkey, bytes) ==
    IF signature.len # SIGNATURE_SERIALIZED_SIZE THEN Err("Panic")
    ELSE Ok([signature |-> signature, pubkey |-> pubkey, message |-> bytes])

\* ProcessData::verify: invoke the Ed25519 program on the instruction.
verify(data) ==
    LET ix == new_ed25519_program_instruction(data.signature, data.pubkey,
                                              serialize(data.message))
    IN IF ix.err # "Ok" THEN Err("Panic")
       ELSE IF ed25519_verify(ix.val.signature, ix.val.pubkey, ix.val.message)
            THEN Ok(0)
       ELSE Err("ProgramError")

\* ------------------------------------------------------------------ handlers
\* What a handler returns: the result, the returned value and the Position
\* working copy as the handler left it.
Return(r, v, p) == [res |-> r, val |-> v, position |-> p]

\* The execution price of create: ask for a Long, bid for a Short.
execution_price(q, direction) ==
    LET r == IF direction = "Long" THEN u64_checked_add(as_u64(q.price), q.conf)
             ELSE u64_checked_sub(as_u64(q.price), q.conf)
    IN IF r.err # "Ok" THEN Err("InvalidPrice") ELSE r

\* scale_protocol::create.  position is the account `init` has just made;
\* q is the result of get_current_price.
create(position, payer, pool, index, args, q, clk) ==
    LET m == margin(args)
        p1 == [position EXCEPT !.status = "Open", !.pool = pool,
                               !.owner = payer, !.index = index]
        p2 == [p1 EXCEPT !.margin = m.val, !.ptype = args.ptype,
                         !.direction = args.direction,
                         !.created_at = clk.unix_timestamp,
                         !.slot = clk.slot, !.decimals = args.decimals]
        p3 == [p2 EXCEPT !.last_price = q.price]
        b == bond(p3)
        liq == get_liquidation(q.price, b.val, args.direction)
        p4 == [p3 EXCEPT !.liquidation = liq.val]
        exec == execution_price(q, args.direction)
        slip == check_slippage(exec.val, args)
        amt == get_asset_amount(args.leverage_margin, exec.val)
        p5 == [p4 EXCEPT !.amount = amt.val]
    IN IF m.err # "Ok" THEN Return("Panic", 0, p1)
       ELSE IF args.leverage > MAX_LEVERAGE THEN Return("InvalidLeverage", 0, p2)
       ELSE IF q.err # "Ok" THEN Return(q.err, 0, p2)
       ELSE IF b.err # "Ok" \/ liq.err # "Ok" THEN Return("Panic", 0, p3)
       ELSE IF args.ptype = "Cross" THEN Return("Panic", 0, p4)
       ELSE IF exec.err # "Ok" THEN Return(exec.err, 0, p4)
       ELSE IF slip.err # "Ok" THEN Return(slip.err, 0, p4)
       ELSE IF amt.err # "Ok" THEN Return("Panic", 0, p4)
       ELSE Return("Ok", 0, p5)

\* position.margin += amount: unchecked, so it panics or wraps on overflow.
add_margin(m, amt) ==
    IF m + amt <= U64_MAX THEN Ok(m + amt)
    ELSE IF overflow_checks THEN Err("Panic")
    ELSE Ok(u64_wrap(m + amt))

\* scale_protocol::increase_margin
increase_margin(position, amt, q) ==
    LET m == add_margin(position.margin, amt)
        p1 == [position EXCEPT !.margin = m.val]
        b == bond(p1)
        liq == get_liquidation(p1.last_price, b.val, p1.direction)
        p2 == [p1 EXCEPT !.liquidation = liq.val]
    IN IF q.err # "Ok" THEN Return(q.err, 0, position)
       ELSE IF is_liquidated(position, as_u64(q.price))
            THEN Return("PositionLiquidated", 0, position)
       ELSE IF m.err # "Ok" THEN Return("Panic", 0, position)
       ELSE IF b.err # "Ok" \/ liq.err # "Ok" THEN Return("Panic", 0, p1)
       ELSE Return("Ok", 0, p2)

\* scale_protocol::process_position
process_position(position, data, q) ==
    LET v == verify(data)
        p1 == [position EXCEPT !.status = "Processed"]
        liquidated == get_liquidated_margin(p1, data.message.time)
        profit == get_profit(p1, q, data.message.time)
    IN IF v.err = "Panic" THEN Return("Panic", 0, position)
       ELSE IF v.err # "Ok" THEN Return("InvalidSignature", 0, position)
       ELSE IF data.message.is_liquidated
            THEN Return(liquidated.err, liquidated.val, p1)
       ELSE IF q.err # "Ok" THEN Return(q.err, 0, p1)
       ELSE Return(profit.err, profit.val, p1)

\* ------------------------------------------------------ account constraints
\* #[account(init, seeds = [b"protocol", payer, index], ...)]: the account at
\* the seeds' address is created, which fails when it is already in use.
account_init(stored) ==
    IF stored.is_initialized THEN "AccountInUse" ELSE "Ok"

\* Account<Position> with constraint = position.owner == payer.key(): the
\* account must hold a Position, and the payer must be its owner.
account_mut(stored, payer) ==
    IF ~stored.is_initialized THEN "AccountNotInitialized"
    ELSE IF stored.position.owner # payer THEN "ConstraintRaw"
    ELSE "Ok"

\* What the account holds after the instruction.  A handler works on a copy
\* of the account's data; the copy is written back when the handler returns
\* Ok, and an error (or a panic) fails the transaction and writes nothing.
exit_init(res, stored, working) ==
    IF res = "Ok" THEN Account(working) ELSE stored
exit_mut(res, stored, working) ==
    IF res = "Ok" THEN Account(working) ELSE stored
\* Mutant: the account is written back like a `mut` account, not closed.
exit_close_keeps(res, stored, working) ==
    IF res = "Ok" THEN Account(working) ELSE stored
\* Mutant: the working copy of a failed handler is written back.
exit_close_partial(res, stored, working) ==
    IF res = "Ok" THEN NoAccount ELSE Account(working)
\* #[account(mut, close = payer)]: on Ok the account is closed instead.
exit_close(res, stored, working) ==
    IF res = "Ok" THEN NoAccount ELSE stored

\* ------------------------------------------------------------------- inputs
Payers == {"alice", "bob"}
\* The payers that open positions, and the indexes they use.
Creators == {"alice"}
Indexes == {0}
Keys == (Creators \X Indexes)
Pools == {"pool"}

\* Results of get_current_price: an error, or the price and confidence of the
\* pair at exponent -decimals.  NoQuote stands where the oracle is not read.
NoQuote == [err |-> "NotRead", price |-> 0, conf |-> 0]
Quote(p, c) == [err |-> "Ok", price |-> p, conf |-> c]
QuotePrices == {-1, 0, 3, 5, 20}
QuoteConfs == {0, 1}
Quotes ==
    {Quote(p, c) : p \in QuotePrices, c \in QuoteConfs}
        \cup {[err |-> e, price |-> 0, conf |-> 0] :
                e \in {"InvalidPriceAccount", "InvalidPrice"}}

\* get_current_price: the feeds' cross rate, read from the oracle accounts.
get_current_price(q) == q

PositionArgs(price, expo, decimals, leverage_margin, leverage, ptype, direction, slippage_numerator, margin_rate_numerator) ==
    [ price |-> price, expo |-> expo, decimals |-> decimals,
      leverage_margin |-> leverage_margin, leverage |-> leverage,
      ptype |-> ptype, direction |-> direction,
      slippage_numerator |-> slippage_numerator,
      margin_rate_numerator |-> margin_rate_numerator ]
NoArgs == PositionArgs(0, 0, 0, 0, 0, "Isolated", "Long", 0, 0)
Directions == {"Long", "Short"}
\* Arguments that vary the leverage and the margin under a wide slippage
\* tolerance, arguments that vary the margin rate, a cross-margin entry, and
\* arguments that vary the slippage check.
LeverageArgs ==
    { PositionArgs(5, 0, 0, lm, lev, "Isolated", d, 10000, 0) :
        lm \in {4, 1000}, lev \in {0, 1, 2, 100, 101}, d \in Directions }
MarginRateArgs ==
    { PositionArgs(5, 0, 0, 1000, 100, "Isolated", d, 10000, mrn) :
        d \in Directions, mrn \in {3000, 10001} }
CrossArgs ==
    { PositionArgs(5, 0, 0, 4, 2, "Cross", d, 10000, 0) : d \in Directions }
SlippageArgs ==
    { PositionArgs(pr, ex, dec, 4, 2, "Isolated", d, sn, 0) :
        pr \in {5, 55}, ex \in {0, -1}, dec \in {0, 1},
        d \in Directions, sn \in {0, 2000} }
\* An exponent whose power of ten does not fit the word.
ExponentArgs ==
    { PositionArgs(5, -8, 0, 4, 2, "Isolated", d, 2000, 0) : d \in Directions }
ArgsDomain ==
    LeverageArgs \cup MarginRateArgs \cup CrossArgs \cup SlippageArgs \cup ExponentArgs

Amounts == {0, 1, U64_MAX}

\* Attestations.  A signature is modelled by who signed which bytes, and by
\* its length in bytes.
Signers == {"authority", "mallory"}
Times == {0, 86400}
Messages ==
    { [is_liquidated |-> l, price |-> 0, time |-> t, slot |-> 0] :
        l \in BOOLEAN, t \in Times }
Signature(k, bytes, n) == [signer |-> k, signed |-> bytes, len |-> n]
ProcessData(message, pubkey, signature) ==
    [message |-> message, pubkey |-> pubkey, signature |-> signature]
Tampered(m) == [m EXCEPT !.is_liquidated = ~m.is_liquidated]
\* Every message signed by either key, and for those of time 0 the same data
\* with a signature of 63 bytes, with a message changed after signing, and
\* with the public key of the other signer.
ValidData ==
    { ProcessData(m, k, Signature(k, serialize(m), SIGNATURE_SERIALIZED_SIZE)) :
        m \in Messages, k \in Signers }
EarlyData == { d \in ValidData : d.message.time = 0 }
DataDomain ==
    ValidData
        \cup { [d EXCEPT !.signature.len = 63] : d \in EarlyData }
        \cup { [d EXCEPT !.message = Tampered(d.message)] : d \in EarlyData }
        \cup { [d EXCEPT !.pubkey = k] : d \in EarlyData, k \in Signers }
NoData ==
    ProcessData([is_liquidated |-> FALSE, price |-> 0, time |-> 0, slot |-> 0],
                "none", Signature("none", <<>>, 0))

\* ------------------------------------------------------------- state machine
\* What is remembered of the position at a key: the Position as create wrote
\* it, the amounts added since and their number, and whether the position
\* last at the key has been processed.
NoHistory ==
    [created |-> ZeroPosition, added |-> 0, increases |-> 0, processed |-> FALSE]
Processed == [NoHistory EXCEPT !.processed = TRUE]

\* An instruction: its inputs, the account as it was stored before, the
\* result, the returned value and the handler's working copy.
Instruction(op, payer, key, before, r, args, q, data, amt) ==
    [ op |-> op, payer |-> payer, key |-> key, before |-> before,
      res |-> r.res, val |-> r.val, position |-> r.position,
      args |-> args, quote |-> q, data |-> data, amount |-> amt ]

\* No instruction is in flight: the result of the last one has been taken.
NoInstruction ==
    Instruction("none", "none", <<"none", 0>>, NoAccount, Return("Ok", 0, ZeroPosition),
                NoArgs, NoQuote, NoData, 0)
Idle == last = NoInstruction

Init ==
    /\ accounts = [k \in Keys |-> NoAccount]
    /\ clock = [unix_timestamp |-> 0, slot |-> 0]
    /\ overflow_checks \in BOOLEAN
    /\ history = [k \in Keys |-> NoHistory]
    /\ last = NoInstruction

\* The oracle is read exactly when the handler reaches get_current_price: a
\* handler given NoQuote returns "NotRead" there.
OracleRead(q, unread) == (q # NoQuote) <=> (unread.res = "NotRead")

\* The create instruction.
Create(payer, index, args, q) ==
    LET key == <<payer, index>>
        stored == accounts[key]
        a == account_init(stored)
        run(quote) == create(ZeroPosition, payer, "pool", index, args,
                             get_current_price(quote), clock)
        r == IF a # "Ok" THEN Return(a, 0, stored.position) ELSE run(q)
    IN /\ Idle
       /\ IF a # "Ok" THEN q = NoQuote /\ args = NoArgs
          ELSE args \in ArgsDomain /\ OracleRead(q, run(NoQuote))
       /\ accounts' = [accounts EXCEPT ![key] = exit_init(r.res, stored, r.position)]
       /\ history' = IF r.res = "Ok"
                     THEN [history EXCEPT ![key] =
                             [NoHistory EXCEPT !.created = r.position]]
                     ELSE history
       /\ last' = Instruction("create", payer, key, stored, r, args, q, NoData, 0)
       /\ UNCHANGED <<clock, overflow_checks>>

\* The increase_margin instruction.
IncreaseMargin(payer, key, amt, q) ==
    LET stored == accounts[key]
        a == account_mut(stored, payer)
        run(quote) == increase_margin(stored.position, amt, get_current_price(quote))
        r == IF a # "Ok" THEN Return(a, 0, stored.position) ELSE run(q)
    IN /\ Idle
       /\ history[key].increases < MaxIncreases
       /\ IF a # "Ok" THEN q = NoQuote /\ amt = 0
          ELSE OracleRead(q, run(NoQuote))
       /\ accounts' = [accounts EXCEPT ![key] = exit_mut(r.res, stored, r.position)]
       /\ history' = IF r.res = "Ok"
                     THEN [history EXCEPT ![key].added = @ + amt,
                                          ![key].increases = @ + 1]
                     ELSE history
       /\ last' = Instruction("increase_margin", payer, key, stored, r, NoArgs, q,
                               NoData, amt)
       /\ UNCHANGED <<clock, overflow_checks>>

\* The process_position instruction.
ProcessPosition(payer, key, data, q) ==
    LET stored == accounts[key]
        a == account_mut(stored, payer)
        run(quote) == process_position(stored.position, data, get_current_price(quote))
        r == IF a # "Ok" THEN Return(a, 0, stored.position) ELSE run(q)
    IN /\ Idle
       /\ IF a # "Ok" THEN q = NoQuote /\ data = NoData
          ELSE data \in DataDomain /\ OracleRead(q, run(NoQuote))
       /\ accounts' = [accounts EXCEPT ![key] = exit_close(r.res, stored, r.position)]
       /\ history' = IF r.res = "Ok" THEN [history EXCEPT ![key] = Processed]
                     ELSE history
       /\ last' = Instruction("process_position", payer, key, stored, r, NoArgs, q,
                               data, 0)
       /\ UNCHANGED <<clock, overflow_checks>>

\* The caller takes the result of the instruction; the next one may start.
Complete ==
    /\ ~Idle
    /\ last' = NoInstruction
    /\ UNCHANGED <<accounts, clock, overflow_checks, history>>

\* Time passes.
Tick ==
    /\ Idle
    /\ clock.slot < MaxTicks
    /\ clock' = [unix_timestamp |-> clock.unix_timestamp + TickSeconds,
                 slot |-> clock.slot + 1]
    /\ UNCHANGED <<accounts, overflow_checks, history, last>>

\* One instruction at a time: an instruction starts only once the result of
\* the one before has been taken.
Next ==
    \/ /\ Idle
       /\ \E payer \in Creators, index \in Indexes,
             args \in ArgsDomain \cup {NoArgs}, q \in Quotes \cup {NoQuote} :
               Create(payer, index, args, q)
    \/ /\ Idle
       /\ \E payer \in Payers, key \in Keys, amt \in Amounts,
             q \in Quotes \cup {NoQuote} :
               IncreaseMargin(payer, key, amt, q)
    \/ /\ Idle
       /\ \E payer \in Payers, key \in Keys, data \in DataDomain \cup {NoData},
             q \in Quotes \cup {NoQuote} :
               ProcessPosition(payer, key, data, q)
    \/ Complete
    \/ Tick

Spec == Init /\ [][Next]_vars

\* ------------------------------------------- calls of the Position methods
\* The methods of Position are public and total on the struct: they are also
\* checked as functions, on Position values drawn from a bounded set and not
\* only on the positions create has stored.
PositionOf(direction, m, mrn, ofn, leverage, last_price, created_at, amt) ==
    LET mm == (m * mrn) \div BASIS_POINTS
    IN [ ZeroPosition EXCEPT
           !.pool = "pool", !.owner = "alice", !.direction = direction,
           !.margin = m, !.margin_rate_numerator = mrn,
           !.overnight_fee_numerator = ofn, !.leverage = leverage,
           !.last_price = last_price, !.created_at = created_at,
           !.liquidation = IF direction = "Long" THEN last_price - (m - mm)
                           ELSE last_price + (m - mm),
           !.amount = amt ]
PositionDomain ==
    { PositionOf(d, m, mrn, ofn, lev, 200, c, a) :
        d \in Directions, m \in {0, 100}, mrn \in {0, 300, 10000},
        ofn \in {0, 10}, lev \in {0, 10}, c \in {0, 43200},
        a \in {BigDecimal(1000, 1), BigDecimal(4, 3)} }
\* The times a caller passes: the creation times, a day later, a day and a
\* second before, and the least i64.
CallTimes == {0, 43200, 86400, -86401, I64_MIN}

\* A call of a function: its inputs and what it returned.
Call(fn, p, q, time, r) ==
    [ op |-> fn, position |-> p, quote |-> q, time |-> time,
      res |-> r.err, val |-> r.val ]

\* position.get_liquidated_margin(time)
GetLiquidatedMargin(p, time) ==
    /\ Idle
    /\ last' = Call("get_liquidated_margin", p, NoQuote, time,
                    get_liquidated_margin(p, time))
    /\ UNCHANGED <<accounts, clock, overflow_checks, history>>

\* position.overnight_fee(time)
OvernightFee(p, time) ==
    /\ Idle
    /\ last' = Call("overnight_fee", p, NoQuote, time, overnight_fee(p, time))
    /\ UNCHANGED <<accounts, clock, overflow_checks, history>>

\* --------------------------------------------- TransactionAccount (price.rs)
\* TransactionAccount multiplies u64 by i64 in i128, twice the width of a
\* word.  So that i128 fits TLC's integers, the words of
\* TransactionAccount are modelled TxWordBits wide and i128 twice that.
TxWordBits == WordBits \div 2
TX_U64_MODULUS == 2 ^ TxWordBits
TX_U64_MAX == TX_U64_MODULUS - 1
TX_I64_MAX == (TX_U64_MODULUS \div 2) - 1
TX_I64_MIN == -(TX_U64_MODULUS \div 2)
TX_I128_MODULUS == TX_U64_MODULUS * TX_U64_MODULUS
TX_I128_MAX == (TX_I128_MODULUS \div 2) - 1
TX_I128_MIN == -(TX_I128_MODULUS \div 2)

\* A checked operation whose exact result is x, in the range lo .. hi.
checked(x, lo, hi) == IF x < lo \/ x > hi THEN Err("None") ELSE Ok(x)
\* checked_div: None on a zero divisor; the quotient is cut toward zero.
checked_div(a, b) ==
    IF b = 0 THEN Err("None")
    ELSE IF (a < 0) = (b < 0) THEN Ok(abs(a) \div abs(b))
    ELSE Ok(-(abs(a) \div abs(b)))
\* b^e in unbounded integers.
RECURSIVE pow(_, _)
pow(b, e) == IF e = 0 THEN 1 ELSE b * pow(b, e - 1)
\* 10u64.pow(e) and 10i128.pow(e): unchecked, so an overflow panics in a
\* build with overflow checks and wraps in one without.
pow10_u64(e) ==
    IF pow(10, e) <= TX_U64_MAX THEN Ok(pow(10, e))
    ELSE IF overflow_checks THEN Err("Panic")
    ELSE Ok(pow(10, e) % TX_U64_MODULUS)
pow10_i128(e) ==
    IF pow(10, e) <= TX_I128_MAX THEN Ok(pow(10, e))
    ELSE IF overflow_checks THEN Err("Panic")
    ELSE LET w == pow(10, e) % TX_I128_MODULUS
         IN Ok(IF w > TX_I128_MAX THEN w - TX_I128_MODULUS ELSE w)

\* Rate { numerator, denominator }
Rate(n, d) == [numerator |-> n, denominator |-> d]
\* pyth_sdk_solana::Price / ProtocolPrice: price and confidence.
ProtocolPrice(price, conf) == [price |-> price, conf |-> conf]
TransactionAccount(direction, price, shares, decimals, leverage, rate) ==
    [ direction |-> direction, initial_shares_price |-> price,
      asset_decimals |-> decimals, shares_with_decimals |-> shares,
      leverage |-> leverage, financing_rate |-> rate ]

initial_price(ta) == ta.initial_shares_price.price
inital_conf(ta) == ta.initial_shares_price.conf
shares(ta) == ta.shares_with_decimals
\* `x as u64` of an i64, `x as i64` of a u64 and u64 -> i64 try_into, at the
\* width of TransactionAccount's words.
tx_as_u64(x) == x % TX_U64_MODULUS
tx_as_i64(x) == IF x > TX_I64_MAX THEN x - TX_U64_MODULUS ELSE x
tx_try_into_i64(x) == checked(x, 0, TX_I64_MAX)

\* TransactionAccount::initial_margin
initial_margin(ta) ==
    LET m == checked(shares(ta) * tx_as_u64(initial_price(ta)), 0, TX_U64_MAX)
        d1 == checked_div(m.val, ta.leverage)
        p == pow10_u64(ta.asset_decimals)
        d2 == checked_div(d1.val, p.val)
    IN IF m.err # "Ok" THEN m
       ELSE IF d1.err # "Ok" THEN d1
       ELSE IF p.err # "Ok" THEN p
       ELSE d2

\* TransactionAccount::buy_to_open_price
buy_to_open_price(ta) ==
    LET c == tx_try_into_i64(inital_conf(ta))
    IN IF ta.direction # "OpenLong" THEN Err("None")
       ELSE IF c.err # "Ok" THEN c
       ELSE checked(initial_price(ta) + c.val, TX_I64_MIN, TX_I64_MAX)

\* TransactionAccount::sell_to_open_price
sell_to_open_price(ta) ==
    LET c == tx_try_into_i64(inital_conf(ta))
    IN IF ta.direction # "OpenShort" THEN Err("None")
       ELSE IF c.err # "Ok" THEN c
       ELSE checked(initial_price(ta) - c.val, TX_I64_MIN, TX_I64_MAX)

\* (self.shares() as i128).checked_mul(diff as i128)?
\*     .checked_div(10i128.pow(self.asset_decimals))
shares_profit(ta, diff) ==
    LET m == checked(shares(ta) * diff, TX_I128_MIN, TX_I128_MAX)
        p == pow10_i128(ta.asset_decimals)
    IN IF m.err # "Ok" THEN m
       ELSE IF p.err # "Ok" THEN p
       ELSE checked_div(m.val, p.val)

\* TransactionAccount::sell_to_close_profit
sell_to_close_profit(ta, price) ==
    LET s1 == checked(price.price - tx_as_i64(price.conf), TX_I64_MIN, TX_I64_MAX)
        open == buy_to_open_price(ta)
        diff == checked(s1.val - open.val, TX_I64_MIN, TX_I64_MAX)
    IN IF ta.direction # "OpenLong" THEN Err("None")
       ELSE IF s1.err # "Ok" THEN s1
       ELSE IF open.err # "Ok" THEN open
       ELSE IF diff.err # "Ok" THEN diff
       ELSE shares_profit(ta, diff.val)

\* TransactionAccount::buy_to_close_profit
buy_to_close_profit(ta, price) ==
    LET open == sell_to_open_price(ta)
        b1 == checked(price.price + tx_as_i64(price.conf), TX_I64_MIN, TX_I64_MAX)
        diff == checked(open.val - b1.val, TX_I64_MIN, TX_I64_MAX)
    IN IF ta.direction # "OpenShort" THEN Err("None")
       ELSE IF open.err # "Ok" THEN open
       ELSE IF b1.err # "Ok" THEN b1
       ELSE IF diff.err # "Ok" THEN diff
       ELSE shares_profit(ta, diff.val)

\* initial_margin()?.checked_mul(leverage)?.checked_mul(numerator)?
\*     .checked_div(denominator)?.checked_mul(days)?.checked_div(365)?
financing(ta, days) ==
    LET im == initial_margin(ta)
        m1 == checked(im.val * ta.leverage, 0, TX_U64_MAX)
        m2 == checked(m1.val * ta.financing_rate.numerator, 0, TX_U64_MAX)
        d1 == checked_div(m2.val, ta.financing_rate.denominator)
        m3 == checked(d1.val * days, 0, TX_U64_MAX)
    IN IF im.err # "Ok" THEN im
       ELSE IF m1.err # "Ok" THEN m1
       ELSE IF m2.err # "Ok" THEN m2
       ELSE IF d1.err # "Ok" THEN d1
       ELSE IF m3.err # "Ok" THEN m3
       ELSE checked_div(m3.val, 365)

\* TransactionAccount::get_profit
TransactionAccount_get_profit(ta, price, days) ==
    LET gross == IF ta.direction = "OpenLong" THEN sell_to_close_profit(ta, price)
                 ELSE buy_to_close_profit(ta, price)
        f == financing(ta, days)
    IN IF gross.err # "Ok" THEN gross
       ELSE IF f.err # "Ok" THEN f
       ELSE checked(gross.val - f.val, TX_I128_MIN, TX_I128_MAX)

\* The accounts and the days get_profit is called on.  The prices are small
\* ones, the confidences include one above i64::MAX, the decimals include
\* those whose power of ten exceeds u64 and i128.
TxPrices ==
    { ProtocolPrice(p, c) :
        p \in {-1, 0, 1, 100}, c \in {0, 1, TX_I64_MAX \div 2 + 1, TX_U64_MAX} }
TxAccounts ==
    { TransactionAccount(d, q, sh, dec, lev, r) :
        d \in {"OpenLong", "OpenShort"}, q \in TxPrices,
        sh \in {0, 1, 100, TX_U64_MAX}, dec \in {0, 2, 4, 7},
        lev \in {0, 1, 10}, r \in {Rate(300, 10000), Rate(1, 0)} }
TxDays == {0, 1, 365}

\* A call of TransactionAccount::get_profit: its inputs and what it returned.
TxCall(ta, price, days, r) ==
    [ op |-> "TransactionAccount::get_profit", account |-> ta, price |-> price,
      days |-> days, res |-> r.err, val |-> r.val ]

\* account.get_profit(&price, days), at the opening quote or one price above.
GetProfit(ta, price, days) ==
    /\ Idle
    /\ last' = TxCall(ta, price, days, TransactionAccount_get_profit(ta, price, days))
    /\ UNCHANGED <<accounts, clock, overflow_checks, history>>

\* One call at a time: the result is taken (Complete) before the next call.
PureNext ==
    \/ /\ Idle
       /\ \E p \in PositionDomain, time \in CallTimes :
             GetLiquidatedMargin(p, time)
    \/ /\ Idle
       /\ \E p \in PositionDomain, time \in CallTimes : OvernightFee(p, time)
    \/ /\ Idle
       /\ \E ta \in TxAccounts, days \in TxDays :
             \E price \in { ta.initial_shares_price,
                            [ta.initial_shares_price EXCEPT !.price = @ + 1] } :
                 GetProfit(ta, price, days)
    \/ Complete

PureSpec == Init /\ [][PureNext]_vars

\* =================================================================== claims
\* The handler of the last instruction ran: the account constraints held.
HandlerRan ==
    /\ last.op # "none"
    /\ last.res \notin {"AccountInUse", "AccountNotInitialized", "ConstraintRaw"}

\* C1: a stored position is Open; an account comes to hold a position only by
\* a successful create; it stops holding one only by a successful
\* process_position, whose working copy is the position with status
\* Processed; a stored position changes only by a successful increase_margin;
\* and increase_margin and process_position on an account that holds no
\* position (so on a processed one) fail and change nothing.
C1_OpenThenProcessed ==
    [][ \A k \in Keys :
          LET old == accounts[k]
              new == accounts'[k]
          IN /\ new.is_initialized => new.position.status = "Open"
             /\ (~old.is_initialized /\ new.is_initialized)
                    => (last'.op = "create" /\ last'.key = k /\ last'.res = "Ok")
             /\ (old.is_initialized /\ ~new.is_initialized)
                    => /\ last'.op = "process_position"
                       /\ last'.key = k
                       /\ last'.res = "Ok"
                       /\ last'.position = [old.position EXCEPT !.status = "Processed"]
             /\ (old.is_initialized /\ new.is_initialized /\ new # old)
                    => /\ last'.op = "increase_margin"
                       /\ last'.key = k
                       /\ last'.res = "Ok"
             /\ ( /\ ~old.is_initialized
                  /\ last'.key = k
                  /\ last'.op \in {"increase_margin", "process_position"} )
                    => (last'.res # "Ok" /\ new = old)
      ]_vars

\* C1 witness: increase_margin was tried on a position that has been
\* processed, and failed.
C1_Witness ==
    /\ last.op = "increase_margin"
    /\ last.payer = "alice"
    /\ history[<<"alice", 0>>].processed
    /\ last.res = "AccountNotInitialized"

\* The key whose attestations the deployment trusts.  Position has no
\* authority field; C2 is stated for any one trusted key.
TrustedAuthority == "authority"

\* The attestation carries a signature of the right length that verifies for
\* its public key and its message.
ValidAttestation(data) ==
    /\ data.signature.len = SIGNATURE_SERIALIZED_SIZE
    /\ ed25519_verify(data.signature, data.pubkey, serialize(data.message))

\* C2: process_position on an attestation with a valid signature whose signer
\* is not the position's authority fails (the claim names the error
\* InvalidAuthority, which the program does not have) and does not close the
\* position: it returns a settlement only to the authority's attestations.
C2_SignerIsAuthority ==
    ( /\ last.op = "process_position"
      /\ HandlerRan
      /\ ValidAttestation(last.data)
      /\ last.data.pubkey # TrustedAuthority )
        => /\ last.res # "Ok"
           /\ accounts[last.key] = last.before

\* C3: process_position on an attestation whose signature is not valid for
\* its message fails with InvalidSignature, with status not yet Processed and
\* no settlement computed.
C3_InvalidSignature ==
    ( /\ last.op = "process_position"
      /\ HandlerRan
      /\ ~ValidAttestation(last.data) )
        => /\ last.res = "InvalidSignature"
           /\ last.position.status = "Open"
           /\ last.val = 0
           /\ accounts[last.key] = last.before

C5_MarginAndLeverage ==
    (last.op = "create" /\ HandlerRan)
        => /\ (last.args.leverage \in 1..MAX_LEVERAGE /\ last.res = "Ok")
                => accounts[last.key].position.margin
                       = last.args.leverage_margin \div last.args.leverage
           /\ (last.args.leverage = 0 \/ last.args.leverage > MAX_LEVERAGE)
                => /\ last.res = "InvalidLeverage"
                   /\ ~accounts[last.key].is_initialized

\* Liquidation as the claims state it, on the oracle's signed price.
LiquidatedAt(p, price) ==
    IF p.direction = "Long" THEN price <= p.liquidation ELSE price >= p.liquidation

\* C6: with the oracle quote read, increase_margin fails with
\* PositionLiquidated exactly when the position is liquidated at the oracle
\* price; and for a Long position, liquidated at a price means liquidated at
\* every lower price, as the program decides it.
C6_LiquidatedExactly ==
    ( /\ last.op = "increase_margin"
      /\ HandlerRan
      /\ last.quote.err = "Ok" )
        => /\ (last.res = "PositionLiquidated")
                <=> LiquidatedAt(last.before.position, last.quote.price)
           /\ last.before.position.direction = "Long"
                => \A p1 \in QuotePrices, p2 \in QuotePrices :
                      ( /\ p2 <= p1
                        /\ is_liquidated(last.before.position, as_u64(p1)) )
                          => is_liquidated(last.before.position, as_u64(p2))

\* The maintenance margin and the liquidation threshold as the claims state
\* them, in unbounded integers; the entry price is last_price as the unsigned
\* number the program computes with.
StatedMaintenance(p, numerator) == (p.margin * numerator) \div BASIS_POINTS
StatedLiquidation(p, b) ==
    IF p.direction = "Long" THEN as_u64(p.last_price) - b
    ELSE as_u64(p.last_price) + b

\* C7: a stored position has margin = the margin create wrote + the amounts
\* added since, liquidation = last_price -/+ bond() of the current margin, and
\* the last_price and amount create wrote.
C7_MarginIsSum ==
    \A k \in Keys :
        accounts[k].is_initialized
            => LET p == accounts[k].position
                   h == history[k]
               IN /\ p.margin = h.created.margin + h.added
                  /\ p.liquidation
                        = StatedLiquidation(p, p.margin
                            - StatedMaintenance(p, p.margin_rate_numerator))
                  /\ p.last_price = h.created.last_price
                  /\ p.amount = h.created.amount

\* C8: right after a successful create the stored position carries
\* args.margin_rate_numerator, its maintenance margin is
\* margin * args.margin_rate_numerator div 10000, its bond is margin less
\* that, and its liquidation lies that bond from the entry price.
C8_MarginRateStored ==
    (last.op = "create" /\ last.res = "Ok")
        => LET p == accounts[last.key].position
               mm == StatedMaintenance(p, last.args.margin_rate_numerator)
           IN /\ p.margin_rate_numerator = last.args.margin_rate_numerator
              /\ maintainance_margin(p) = Ok(mm)
              /\ bond(p) = Ok(p.margin - mm)
              /\ p.liquidation = StatedLiquidation(p, p.margin - mm)

\* C9: create rejects args whose margin_rate_numerator is above 10000, and
\* every stored position has margin_rate_numerator <= 10000 and
\* maintenance margin <= margin.
C9_MarginRateBounded ==
    /\ ( /\ last.op = "create"
         /\ HandlerRan
         /\ last.args.margin_rate_numerator > BASIS_POINTS )
            => last.res # "Ok"
    /\ \A k \in Keys :
          accounts[k].is_initialized
              => LET p == accounts[k].position
                 IN /\ p.margin_rate_numerator <= BASIS_POINTS
                    /\ StatedMaintenance(p, p.margin_rate_numerator) <= p.margin

\* 10^n
RECURSIVE Pow10(_)
Pow10(n) == IF n = 0 THEN 1 ELSE 10 * Pow10(n - 1)

\* The slippage rule as C10 states it, for expo <= 0.  The observed price is
\* args.price * 10^expo; in the scale of the execution price (units of
\* 10^-decimals) it is args.price * 10^decimals / 10^-expo.  A Long is
\* rejected iff exec >= observed * (1 + n/10000), a Short iff
\* exec <= observed * (1 - n/10000).
StatedSlippageReached(args, exec) ==
    LET num == args.price * Pow10(args.decimals)
        den == Pow10(-args.expo) * BASIS_POINTS
    IN IF args.direction = "Long"
       THEN exec >= ceil_div(num * (BASIS_POINTS + args.slippage_numerator), den)
       ELSE exec <= floor_div(num * (BASIS_POINTS - args.slippage_numerator), den)

\* C10: a create that reaches the slippage check fails with SlippageReached
\* exactly when the execution price is at or beyond the tolerance around the
\* observed price.
C10_SlippageRule ==
    ( /\ last.op = "create"
      /\ last.res \in {"Ok", "SlippageReached"}
      /\ last.args.expo \in {0, -1} )
        => ( (last.res = "SlippageReached")
               <=> StatedSlippageReached(last.args,
                      execution_price(last.quote, last.args.direction).val) )

\* The overnight fee as the claims state it, in unbounded integers: whole days
\* from created_at to now, one day at the least, charged on amount * leverage.
StatedDays(p, now) == (now - p.created_at + SECONDS_PER_DAY) \div SECONDS_PER_DAY
StatedFee(p, now) ==
    ((p.amount.num * p.leverage * StatedDays(p, now) * p.overnight_fee_numerator)
        \div BASIS_POINTS) \div p.amount.den

StatedExit(p, q) ==
    IF p.direction = "Long" THEN q.price - q.conf ELSE q.price + q.conf
StatedLosing(p, q) ==
    IF p.direction = "Long" THEN StatedExit(p, q) < p.last_price
    ELSE StatedExit(p, q) > p.last_price
StatedDifference(p, q) ==
    IF p.direction = "Long" THEN p.last_price - StatedExit(p, q)
    ELSE StatedExit(p, q) - p.last_price
StatedGain(p, q) == (StatedExit(p, q) * p.amount.num) \div p.amount.den
\* Whether a subtraction of the stated settlement goes below zero.
StatedBelowZero(p, q, time) ==
    IF StatedLosing(p, q)
    THEN p.margin - StatedDifference(p, q) - StatedFee(p, time) < 0
    ELSE p.margin - StatedFee(p, time) < 0
StatedProfit(p, q, time) ==
    IF StatedLosing(p, q)
    THEN p.margin - StatedDifference(p, q) - StatedFee(p, time)
    ELSE p.margin - StatedFee(p, time) + StatedGain(p, q)

\* C12: a normal close at a non-negative exit price of a position entered at
\* a non-negative price returns the stated settlement, and fails with
\* InvalidPrice when a subtraction of it goes below zero (or the settlement
\* does not fit the word).
C12_ProfitFormulas ==
    ( /\ last.op = "process_position"
      /\ HandlerRan
      /\ ValidAttestation(last.data)
      /\ ~last.data.message.is_liquidated
      /\ last.quote.err = "Ok"
      /\ last.quote.price - last.quote.conf >= 0
      /\ last.before.position.last_price >= 0 )
        => LET p == last.before.position
               q == last.quote
               time == last.data.message.time
           IN IF StatedBelowZero(p, q, time) \/ StatedProfit(p, q, time) > U64_MAX
              THEN last.res = "InvalidPrice"
              ELSE last.res = "Ok" /\ last.val = StatedProfit(p, q, time)

\* C13: an instruction in which a money computation leaves its range does
\* not succeed: increase_margin when margin + amount exceeds the word, create
\* and increase_margin when the oracle price is negative (it is used as an
\* unsigned price), create of a Long when the entry price less the bond is
\* below zero; and no stored position carries a threshold other than its
\* signed entry price -/+ its bond.
C13_NoWrapping ==
    /\ ( /\ last.op = "increase_margin"
         /\ HandlerRan
         /\ last.before.position.margin + last.amount > U64_MAX )
            => last.res # "Ok"
    /\ ( /\ last.op \in {"create", "increase_margin"}
         /\ HandlerRan
         /\ last.quote.err = "Ok"
         /\ last.quote.price < 0 )
            => last.res # "Ok"
    /\ ( /\ last.op = "create"
         /\ HandlerRan
         /\ last.quote.err = "Ok"
         /\ last.args.leverage \in 1..MAX_LEVERAGE
         /\ last.args.direction = "Long"
         /\ last.quote.price
               < last.args.leverage_margin \div last.args.leverage )
            => last.res # "Ok"
    /\ \A k \in Keys :
          accounts[k].is_initialized
              => LET p == accounts[k].position
                     b == p.margin - StatedMaintenance(p, p.margin_rate_numerator)
                 IN /\ b >= 0
                    /\ p.liquidation = IF p.direction = "Long"
                                       THEN p.last_price - b
                                       ELSE p.last_price + b

\* C14: for every stored position (each is produced by create), the overnight
\* fee at now = created_at is the one-day fee
\* trunc(amount * leverage * 1 * overnight_fee_numerator / 10000), and it is
\* not zero.
C14_OvernightFee ==
    \A k \in Keys :
        accounts[k].is_initialized
            => LET p == accounts[k].position
                   fee == overnight_fee(p, p.created_at)
               IN /\ StatedDays(p, p.created_at) = 1
                  /\ fee = Ok(StatedFee(p, p.created_at))
                  /\ fee.val > 0

\* C16: after a successful increase_margin the position is liquidated at no
\* price at which it was not liquidated before: at the oracle's prices and at
\* the thresholds before and after the call.
C16_NeverIntoLiquidation ==
    (last.op = "increase_margin" /\ last.res = "Ok")
        => LET before == last.before.position
               after == accounts[last.key].position
           IN \A price \in { as_u64(x) : x \in QuotePrices }
                             \cup {before.liquidation, after.liquidation} :
                 ~is_liquidated(before, price) => ~is_liquidated(after, price)

\* C15: get_profit at the quote the account was opened at returns, when it
\* returns a value, one that is not positive, and a negative one when the
\* confidence is positive and shares_with_decimals >= 10^asset_decimals.
C15_OpenCloseNeverPays ==
    ( /\ last.op = "TransactionAccount::get_profit"
      /\ last.price = last.account.initial_shares_price
      /\ last.res = "Ok" )
        => /\ last.val <= 0
           /\ ( /\ last.account.initial_shares_price.conf > 0
                /\ last.account.shares_with_decimals
                      >= pow(10, last.account.asset_decimals) )
                  => last.val < 0

=============================================================================
